---------------------------- MODULE Spec2Model ----------------------------
(***************************************************************************)
(* Model of yaml_to_sexpr.py: the scalar classifier, the recursive         *)
(* encoder `convert`, the pretty printer `format_sexpr` and the CLI driver *)
(* `main`.                                                                 *)
(*                                                                         *)
(* A Python str is a sequence of one-character strings.  A value of the    *)
(* generic tree is a record tagged by its field t:                         *)
(*   [t |-> "dict", items |-> << [k |-> key, v |-> value], ... >>]         *)
(*   [t |-> "list", items |-> << value, ... >>]                            *)
(*   [t |-> "date", year |-> y, month |-> m, day |-> d]                    *)
(*   [t |-> "str",  s |-> chars]   [t |-> "none"]                          *)
(*   [t |-> "bool", b |-> TRUE]    [t |-> "int", n |-> 1]                  *)
(***************************************************************************)
EXTENDS Integers, Sequences, FiniteSets, TLC

VARIABLES
    pc,        \* position of the run
    args,      \* parsed command line: fmt, suffix, pretty, output
    file,      \* the input file: exists, parses, docs
    data,      \* the loaded value tree
    sexpr,     \* the S-expression text
    error,     \* the exception that ended the run, "" if none
    expr,      \* format_sexpr: its argument
    pos,       \* format_sexpr: index of the next character of expr
    result,    \* format_sexpr: the joined result list
    depth,     \* format_sexpr: the depth counter
    token,     \* format_sexpr: the pending token
    outFile,   \* the output path on disk: exists, content
    outOpens,  \* number of times the output path was opened for writing
    outWrites, \* number of write calls on the output file
    stdout     \* text printed to standard output

vars == << pc, args, file, data, sexpr, error, expr, pos, result, depth,
           token, outFile, outOpens, outWrites, stdout >>

---------------------------------------------------------------------------
(* Bounds of the model *)

MaxNodes == 4

MaxPieces == 3

MaxFileNodes == 3

MaxExprLen == 5

---------------------------------------------------------------------------
(* Characters and str helpers *)

AsciiDigits == {"0", "1", "2", "3", "4", "5", "6", "7", "8", "9"}

\* Decimal digits outside ASCII, which \d of a str pattern also matches;
\* "U+0663" stands for the one character ARABIC-INDIC DIGIT THREE.
UnicodeDigits == {"U+0663"}

AsciiLetters ==
    {"A", "B", "C", "D", "E", "F", "G", "H", "I", "J", "K", "L", "M",
     "N", "O", "P", "Q", "R", "S", "T", "U", "V", "W", "X", "Y", "Z",
     "a", "b", "c", "d", "e", "f", "g", "h", "i", "j", "k", "l", "m",
     "n", "o", "p", "q", "r", "s", "t", "u", "v", "w", "x", "y", "z"}

\* [A-Za-z0-9_]
WordChars == AsciiLetters \cup AsciiDigits \cup {"_"}

\* \d
ReDigit(c) == c \in AsciiDigits \cup UnicodeDigits

\* the characters str.strip() removes that occur in the model
Whitespace == {" ", "\t", "\n", "\r"}

RECURSIVE LStrip(_)
LStrip(s) ==
    IF s = << >> THEN << >>
    ELSE IF Head(s) \in Whitespace THEN LStrip(Tail(s)) ELSE s

RECURSIVE RStrip(_)
RStrip(s) ==
    IF s = << >> THEN << >>
    ELSE IF s[Len(s)] \in Whitespace THEN RStrip(SubSeq(s, 1, Len(s) - 1))
    ELSE s

\* str.strip()
Strip(s) == RStrip(LStrip(s))

\* sub in s
Contains(s, sub) ==
    \E i \in 1..(Len(s) - Len(sub) + 1) : SubSeq(s, i, i + Len(sub) - 1) = sub

\* s.startswith(p)
StartsWith(s, p) == Len(s) >= Len(p) /\ SubSeq(s, 1, Len(p)) = p

\* s.replace(old, new) for a one-character old
RECURSIVE Replace(_, _, _)
Replace(s, old, new) ==
    IF s = << >> THEN << >>
    ELSE (IF Head(s) = old THEN new ELSE << Head(s) >>)
             \o Replace(Tail(s), old, new)

\* separator.join(parts)
RECURSIVE Join(_, _)
Join(separator, parts) ==
    IF parts = << >> THEN << >>
    ELSE IF Len(parts) = 1 THEN parts[1]
    ELSE parts[1] \o separator \o Join(separator, Tail(parts))

\* s.split(sep) for a one-character sep
RECURSIVE Split(_, _)
Split(s, sep) ==
    IF \A i \in 1..Len(s) : s[i] # sep THEN << s >>
    ELSE LET i == CHOOSE j \in 1..Len(s) :
                      s[j] = sep /\ \A h \in 1..(j - 1) : s[h] # sep
         IN  << SubSeq(s, 1, i - 1) >> \o Split(SubSeq(s, i + 1, Len(s)), sep)

\* str(n) for an integer n
RECURSIVE NatStr(_)
NatStr(n) ==
    LET d == << "0", "1", "2", "3", "4", "5", "6", "7", "8", "9" >>
    IN  IF n < 10 THEN << d[n + 1] >> ELSE NatStr(n \div 10) \o << d[(n % 10) + 1] >>

IntStr(n) == IF n < 0 THEN << "-" >> \o NatStr(0 - n) ELSE NatStr(n)

\* format spec 02d for a non-negative n
Pad02(n) == IF n < 10 THEN << "0" >> \o NatStr(n) ELSE NatStr(n)

---------------------------------------------------------------------------
(* Scalar classifier *)

\* the end-of-string anchor $ of re.match without re.MULTILINE: the match
\* of the body ends at the end of s, or just before a final newline
DollarEnd(s, n) == Len(s) = n \/ (Len(s) = n + 1 /\ s[n + 1] = "\n")

is_iso_date_unanchored(s) ==
    \E i \in 1..(Len(s) - 9) :
        /\ \A j \in {0, 1, 2, 3, 5, 6, 8, 9} : ReDigit(s[i + j])
        /\ s[i + 4] = "-" /\ s[i + 7] = "-"

\* re.match(r"^\d{4}-\d{2}-\d{2}$", s)
is_iso_date(s) ==
    /\ Len(s) >= 10
    /\ \A j \in {1, 2, 3, 4, 6, 7, 9, 10} : ReDigit(s[j])
    /\ s[5] = "-" /\ s[8] = "-"
    /\ DollarEnd(s, 10)

\* s.replace("\\", "\\\\").replace('"', '\\"')
escape_string(s) ==
    Replace(Replace(s, "\\", << "\\", "\\" >>), "\"", << "\\", "\"" >>)

\* re.match(r"^[A-Za-z0-9_]+$", s) and re.search(r"\d", s)
is_symbolic_identifier(s) ==
    /\ \E n \in 1..Len(s) :
           /\ \A j \in 1..n : s[j] \in WordChars
           /\ DollarEnd(s, n)
    /\ \E j \in 1..Len(s) : ReDigit(s[j])

---------------------------------------------------------------------------
(* Encoder *)

\* parent_key: None, or the key k of the enclosing pair
None == << >>
Some(k) == << k >>

\* the default prefix "yaml"
prefix == << "y", "a", "m", "l" >>

MakeDate == << "(", "m", "a", "k", "e", "-", "d", "a", "t", "e", " " >>

Quoted(s) == << "\"" >> \o s \o << "\"" >>

\* the str branch of convert
convert_str(s) ==
    IF is_iso_date(s)
    THEN LET p == Split(s, "-")
         IN  MakeDate \o p[1] \o << " " >> \o p[2] \o << " " >> \o p[3] \o << ")" >>
    ELSE IF Contains(s, << "{", "{" >>) /\ Contains(s, << "}", "}" >>)
    THEN Quoted(escape_string(s))
    ELSE IF is_symbolic_identifier(s)
    THEN << "'" >> \o s
    ELSE Quoted(escape_string(s))

RECURSIVE convert(_, _, _)
convert(obj, pfx, parent_key) ==
    CASE obj.t = "dict" ->
            LET inner_parts ==
                    [i \in 1..Len(obj.items) |->
                        << "(" >> \o pfx \o << ":" >> \o obj.items[i].k \o << " " >>
                            \o convert(obj.items[i].v, pfx, Some(obj.items[i].k))
                            \o << ")" >>]
                separator == IF parent_key = None THEN << "\n" >> ELSE << " " >>
            IN  Join(separator, inner_parts)
      [] obj.t = "list" ->
            LET items ==
                    [i \in 1..Len(obj.items) |->
                        << "(" >> \o pfx \o << ":", "i", "t", "e", "m", " " >>
                            \o convert(obj.items[i], pfx, None) \o << ")" >>]
            IN  << "(", "\n" >> \o Join(<< "\n" >>, items) \o << ")" >>
      [] obj.t = "date" ->
            MakeDate \o IntStr(obj.year) \o << " " >> \o Pad02(obj.month)
                \o << " " >> \o Pad02(obj.day) \o << ")" >>
      [] obj.t = "str" -> convert_str(obj.s)
      [] obj.t = "none" -> << "'", "n", "i", "l" >>
      [] obj.t = "bool" -> IF obj.b THEN << "#", "t" >> ELSE << "#", "f" >>
      [] OTHER -> IntStr(obj.n)

\* the recursive calls convert(obj, pfx, parent_key) makes, itself included,
\* as pairs << object, parent_key >>
RECURSIVE convert_calls(_, _)
convert_calls(obj, parent_key) ==
    { << obj, parent_key >> } \cup
    CASE obj.t = "dict" ->
            UNION { convert_calls(obj.items[i].v, Some(obj.items[i].k)) :
                        i \in 1..Len(obj.items) }
      [] obj.t = "list" ->
            UNION { convert_calls(obj.items[i], None) : i \in 1..Len(obj.items) }
      [] OTHER -> {}

---------------------------------------------------------------------------
(* Inputs *)

IntV(n) == [t |-> "int", n |-> n]
StrV(s) == [t |-> "str", s |-> s]
BoolV(b) == [t |-> "bool", b |-> b]
NoneValue == [t |-> "none"]
DateV(y, m, d) == [t |-> "date", year |-> y, month |-> m, day |-> d]
DictV(items) == [t |-> "dict", items |-> items]
ListV(items) == [t |-> "list", items |-> items]

Leaves == { IntV(1), StrV(<< ")" >>) }

Keys == { << "k" >>, << "(" >> }

\* the trees of exactly n nodes, and the non-empty sequences of trees of
\* n nodes in all
RECURSIVE TreesOfSize(_), Forests(_)
TreesOfSize(n) ==
    IF n = 1 THEN Leaves \cup { DictV(<< >>), ListV(<< >>) }
    ELSE { ListV(f) : f \in Forests(n - 1) } \cup
         UNION { { DictV([i \in 1..Len(f) |-> [k |-> ks[i], v |-> f[i]]]) :
                     ks \in { q \in [1..Len(f) -> Keys] :
                                \A i, j \in 1..Len(f) : q[i] = q[j] => i = j } } :
                 f \in { g \in Forests(n - 1) : Len(g) <= Cardinality(Keys) } }

Forests(n) ==
    { << t >> : t \in TreesOfSize(n) } \cup
    UNION { { << t >> \o f : t \in TreesOfSize(j), f \in Forests(n - j) } :
                j \in 1..(n - 1) }

Trees == UNION { TreesOfSize(n) : n \in 1..MaxNodes }

IsoSample == << "2", "0", "2", "4", "-", "0", "3", "-", "0", "5" >>

Pieces ==
    { << "{", "{" >>, << "}", "}" >>, << "A" >>, << "1" >>, << "_" >>,
      << " " >>, << "\n" >>, << "\"" >>, << "\\" >>, IsoSample }

RECURSIVE PieceStrings(_)
PieceStrings(n) ==
    IF n = 0 THEN { << >> }
    ELSE { << >> } \cup { p \o s : p \in Pieces, s \in PieceStrings(n - 1) }

\* date-shaped strings: digit groups of several widths and digit kinds
DateShaped ==
    { y \o << s1 >> \o m \o << s2 >> \o d :
        y \in { << "2", "0", "2", "4" >>, << "9", "9", "9" >>,
                << "U+0663", "0", "2", "4" >> },
        s1 \in { "-", "/" }, s2 \in { "-" },
        m \in { << "0", "3" >>, << "3" >> },
        d \in { << "0", "5" >>, << "0", "5", "\n" >>, << "0", "5", " " >> } }

StrInputs == PieceStrings(MaxPieces) \cup DateShaped

Years == { 1000, 2024, 9999 }
Months == { 1, 3, 12 }
Days == { 1, 5, 31 }

NativeDates == { DateV(y, m, d) : y \in Years, m \in Months, d \in Days }

OtherScalars == { NoneValue, BoolV(TRUE), BoolV(FALSE), IntV(0), IntV(12), IntV(0 - 7) }

ConvertInputs ==
    Trees \cup { StrV(s) : s \in StrInputs } \cup NativeDates \cup OtherScalars

NoArgs == [fmt |-> "none", suffix |-> ".yaml", pretty |-> FALSE, output |-> FALSE]
NoFile == [exists |-> FALSE, parses |-> FALSE, docs |-> << >>]
Absent == [exists |-> FALSE, content |-> << >>]

---------------------------------------------------------------------------
(* convert applied to one value *)

InitConvert ==
    /\ pc = "convert"
    /\ data \in ConvertInputs
    /\ args = NoArgs /\ file = NoFile
    /\ sexpr = << >> /\ error = ""
    /\ expr = << >> /\ pos = 1 /\ result = << >> /\ depth = 0 /\ token = << >>
    /\ outFile = Absent /\ outOpens = 0 /\ outWrites = 0 /\ stdout = << >>

Convert ==
    /\ pc = "convert"
    /\ sexpr' = convert(data, prefix, None)
    /\ pc' = "converted"
    /\ UNCHANGED << args, file, data, error, expr, pos, result, depth, token,
                    outFile, outOpens, outWrites, stdout >>

SpecConvert == InitConvert /\ [][Convert]_vars

---------------------------------------------------------------------------
(* Pretty printer *)

\* the default indent
indent == 2

\* " " * n
Spaces(n) == IF n <= 0 THEN << >> ELSE [i \in 1..n |-> " "]

\* the loop state before the first character
FmtInit == [result |-> << >>, depth |-> 0, token |-> << >>]

FmtOpenDropsToken(st) ==
    [result |-> st.result \o << "\n" >> \o Spaces(st.depth * indent) \o << "(" >>,
     depth |-> st.depth + 1,
     token |-> << >>]

\* the branch char == "("
FmtOpen(st) ==
    LET flush == Strip(st.token) # << >>
    IN  [result |-> st.result \o (IF flush THEN Strip(st.token) ELSE << >>)
                        \o << "\n" >> \o Spaces(st.depth * indent) \o << "(" >>,
         depth |-> st.depth + 1,
         token |-> IF flush THEN << >> ELSE st.token]

\* the branch char == ")"
FmtClose(st) ==
    LET flush == Strip(st.token) # << >>
    IN  [result |-> st.result \o (IF flush THEN << " " >> \o Strip(st.token) ELSE << >>)
                        \o << ")" >>,
         depth |-> st.depth - 1,
         token |-> IF flush THEN << >> ELSE st.token]

\* the branch char == "\n"
FmtNewline(st) ==
    LET flush == Strip(st.token) # << >>
    IN  [result |-> st.result \o (IF flush THEN << " " >> \o Strip(st.token) ELSE << >>)
                        \o << "\n" >> \o Spaces(st.depth * indent),
         depth |-> st.depth,
         token |-> IF flush THEN << >> ELSE st.token]

\* one iteration of the loop over expr
FmtStep(st, char) ==
    CASE char = "(" -> FmtOpen(st)
      [] char = ")" -> FmtClose(st)
      [] char = "\n" -> FmtNewline(st)
      [] OTHER -> [st EXCEPT !.token = st.token \o << char >>]

RECURSIVE FmtRun(_, _)
FmtRun(e, st) == IF e = << >> THEN st ELSE FmtRun(Tail(e), FmtStep(st, Head(e)))

\* format_sexpr(expr) as a function of its argument
format_sexpr(e) == Strip(FmtRun(e, FmtInit).result)

\* for char in expr: one character
FormatChar ==
    /\ pc = "format"
    /\ pos <= Len(expr)
    /\ LET st == FmtStep([result |-> result, depth |-> depth, token |-> token],
                         expr[pos])
       IN  /\ result' = st.result
           /\ depth' = st.depth
           /\ token' = st.token
    /\ pos' = pos + 1
    /\ UNCHANGED << pc, args, file, data, sexpr, error, expr,
                    outFile, outOpens, outWrites, stdout >>

\* return "".join(result).strip()
FormatReturn ==
    /\ pc = "format"
    /\ pos > Len(expr)
    /\ sexpr' = Strip(result)
    /\ pc' = "emit"
    /\ UNCHANGED << args, file, data, error, expr, pos, result, depth, token,
                    outFile, outOpens, outWrites, stdout >>

ExprAlphabet == { "(", ")", "\n", " ", "a", "b" }

ExprInputs == UNION { [1..n -> ExprAlphabet] : n \in 0..MaxExprLen }

InitFormat ==
    /\ pc = "format"
    /\ expr \in ExprInputs
    /\ pos = 1 /\ result = << >> /\ depth = 0 /\ token = << >>
    /\ args = NoArgs /\ file = NoFile /\ data = NoneValue
    /\ sexpr = << >> /\ error = ""
    /\ outFile = Absent /\ outOpens = 0 /\ outWrites = 0 /\ stdout = << >>

SpecFormat == InitFormat /\ [][FormatChar \/ FormatReturn]_vars

---------------------------------------------------------------------------
(* CLI driver *)

\* [".yaml", ".yml"]
YamlSuffixes == { ".yaml", ".yml" }

\* the test of load_data that selects the YAML parser
format_supported(fmt, suffix) ==
    fmt = "yaml" \/ (fmt = "none" /\ suffix \in YamlSuffixes)

\* the top-level wrapping of main
wrap_top_level(d) ==
    IF d.t = "list" /\ \A i \in 1..Len(d.items) : d.items[i].t = "dict"
    THEN << "(" >>
             \o Join(<< " " >>,
                     [i \in 1..Len(d.items) |->
                         << "(" >> \o convert(d.items[i], prefix, None) \o << ")" >>])
             \o << ")" >>
    ELSE << "(" >> \o convert(d, prefix, None) \o << ")" >>

OutputReadyEarly == pc \in { "wrap", "emit" }

\* the place of main where the output is emitted: after the last build step
OutputReady == pc = "emit"

Fail(e) ==
    /\ pc' = "failed"
    /\ error' = e

\* data = load_data(Path(args.input), args.format, enable_env=args.env);
\* file.docs is what yaml.safe_load_all yields for the text handed to it
LoadData ==
    /\ pc = "load"
    /\ IF ~file.exists
       THEN Fail("FileNotFoundError") /\ UNCHANGED data
       ELSE IF ~format_supported(args.fmt, args.suffix)
       THEN Fail("ValueError") /\ UNCHANGED data
       ELSE IF ~file.parses
       THEN Fail("YAMLError") /\ UNCHANGED data
       ELSE IF Len(file.docs) > 1
       THEN data' = ListV(file.docs) /\ pc' = "wrap" /\ UNCHANGED error
       ELSE IF Len(file.docs) = 0
       THEN Fail("IndexError") /\ UNCHANGED data
       ELSE data' = file.docs[1] /\ pc' = "wrap" /\ UNCHANGED error
    /\ UNCHANGED << args, file, sexpr, expr, pos, result, depth, token,
                    outFile, outOpens, outWrites, stdout >>

\* the if/else that builds sexpr, then if args.pretty: enter format_sexpr
WrapTopLevel ==
    /\ pc = "wrap"
    /\ sexpr' = wrap_top_level(data)
    /\ IF args.pretty
       THEN /\ pc' = "format"
            /\ expr' = wrap_top_level(data)
            /\ pos' = 1 /\ result' = << >> /\ depth' = 0 /\ token' = << >>
       ELSE /\ pc' = "emit"
            /\ UNCHANGED << expr, pos, result, depth, token >>
    /\ UNCHANGED << args, file, data, error, outFile, outOpens, outWrites, stdout >>

\* with open(args.output, "w", encoding="utf-8") as out_f: the open, which
\* creates or truncates the file, or fails and leaves it alone
OpenOutput ==
    /\ OutputReady
    /\ args.output
    /\ outOpens' = outOpens + 1
    /\ \E ok \in BOOLEAN :
          IF ok
          THEN /\ outFile' = [exists |-> TRUE, content |-> << >>]
               /\ pc' = "opened"
               /\ UNCHANGED error
          ELSE /\ Fail("OSError")
               /\ UNCHANGED outFile
    /\ UNCHANGED << args, file, data, sexpr, expr, pos, result, depth, token,
                    outWrites, stdout >>

\* out_f.write(sexpr)
WriteOutput ==
    /\ pc = "opened"
    /\ outFile' = [outFile EXCEPT !.content = outFile.content \o sexpr]
    /\ outWrites' = outWrites + 1
    /\ pc' = "done"
    /\ UNCHANGED << args, file, data, sexpr, error, expr, pos, result, depth,
                    token, outOpens, stdout >>

\* print(sexpr)
PrintOutput ==
    /\ OutputReady
    /\ ~args.output
    /\ stdout' = stdout \o sexpr \o << "\n" >>
    /\ pc' = "done"
    /\ UNCHANGED << args, file, data, sexpr, error, expr, pos, result, depth,
                    token, outFile, outOpens, outWrites >>

FileForests == { << >> } \cup UNION { Forests(n) : n \in 1..MaxFileNodes }

Files ==
    { NoFile, [exists |-> TRUE, parses |-> FALSE, docs |-> << >>] } \cup
    { [exists |-> TRUE, parses |-> TRUE, docs |-> f] : f \in FileForests }

OldOutput == [exists |-> TRUE, content |-> << "o", "l", "d" >>]

Init ==
    /\ pc = "load"
    /\ args \in [fmt : { "none", "yaml", "json" },
                 suffix : { ".yaml", ".yml", ".json" },
                 pretty : BOOLEAN, output : BOOLEAN]
    /\ file \in Files
    /\ outFile \in (IF args.output THEN { Absent, OldOutput } ELSE { Absent })
    /\ data = NoneValue /\ sexpr = << >> /\ error = ""
    /\ expr = << >> /\ pos = 1 /\ result = << >> /\ depth = 0 /\ token = << >>
    /\ outOpens = 0 /\ outWrites = 0 /\ stdout = << >>

Next ==
    \/ LoadData
    \/ WrapTopLevel
    \/ FormatChar
    \/ FormatReturn
    \/ OpenOutput
    \/ WriteOutput
    \/ PrintOutput

Spec == Init /\ [][Next]_vars

---------------------------------------------------------------------------
(* Properties *)

\* the forms (prefix:k value) of a mapping, in stored key order
Forms(m) ==
    [i \in 1..Len(m.items) |->
        << "(" >> \o prefix \o << ":" >> \o m.items[i].k \o << " " >>
            \o convert(m.items[i].v, prefix, Some(m.items[i].k)) \o << ")" >>]

\* C1: every mapping below the root (the value of a key or an element of a
\* sequence, at any depth) is rendered as its forms joined by one space, and
\* the root mapping as its forms joined by newlines.
C1_NestedMappingSpaceJoined ==
    pc = "converted" =>
        /\ data.t = "dict" => sexpr = Join(<< "\n" >>, Forms(data))
        /\ \A c \in convert_calls(data, None) \ { << data, None >> } :
              c[1].t = "dict" =>
                  convert(c[1], prefix, c[2]) = Join(<< " " >>, Forms(c[1]))

\* a text whose parentheses balance: no prefix closes more than it opens,
\* and the whole text closes all it opens
ParenCount(e, ch) == Cardinality({ i \in 1..Len(e) : e[i] = ch })

Balanced(e) ==
    /\ \A n \in 1..Len(e) :
          ParenCount(SubSeq(e, 1, n), ")") <= ParenCount(SubSeq(e, 1, n), "(")
    /\ ParenCount(e, ")") = ParenCount(e, "(")

\* C2: pretty-printing is idempotent on parenthesis-balanced input: printing
\* the printed text of a balanced driver-built text gives the same text.
C2_FormatIdempotent ==
    (pc = "emit" /\ args.pretty /\ Balanced(expr)) =>
        format_sexpr(sexpr) = sexpr

\* C3: an explicit hint is used, "json" like "yaml"; the unsupported-format
\* failure happens only for no hint with a suffix other than .yaml/.yml, and
\* a file loaded with a hint yields the tree the YAML parser gives.
C3_JsonHintLoadsLikeYaml ==
    /\ error = "ValueError" =>
           (args.fmt = "none" /\ args.suffix \notin { ".yaml", ".yml" })
    /\ (pc # "load" /\ file.exists /\ file.parses /\ Len(file.docs) > 0
            /\ args.fmt \in { "yaml", "json" }) =>
           data = IF Len(file.docs) > 1 THEN ListV(file.docs) ELSE file.docs[1]

\* the complete text a run builds from its loaded data
CompleteText ==
    IF args.pretty THEN format_sexpr(wrap_top_level(data)) ELSE wrap_top_level(data)

\* C4: the output path is opened only after loading, wrapping, encoding and
\* the optional pretty-printing are done; a run that fails in one of them
\* never opens it and leaves the path as it was; the file is written by one
\* write of the complete text.
C4_OutputOnlyAfterBuild ==
    /\ outOpens > 0 =>
           /\ outOpens = 1
           /\ pc \in { "opened", "done", "failed" }
           /\ error \in { "", "OSError" }
           /\ sexpr = CompleteText
    /\ (pc = "failed" /\ error # "OSError") =>
           (outOpens = 0 /\ outWrites = 0 /\ outFile \in { Absent, OldOutput })
    /\ outWrites <= 1
    /\ outWrites = 1 => (pc = "done" /\ outFile.exists /\ outFile.content = CompleteText)
    /\ (outOpens = 0 \/ error = "OSError") => outFile \in { Absent, OldOutput }

C4_Witness ==
    /\ pc = "done" /\ args.output /\ args.pretty
    /\ outWrites = 1
    /\ data.t = "dict" /\ Len(data.items) > 0
    /\ outFile.content = sexpr

IsPlaceholder(s) == Contains(s, << "{", "{" >>) /\ Contains(s, << "}", "}" >>)

\* backslash and double quote each escaped by one backslash, nothing else
RECURSIVE EscapeEach(_)
EscapeEach(s) ==
    IF s = << >> THEN << >>
    ELSE (IF Head(s) \in { "\\", "\"" } THEN << "\\", Head(s) >> ELSE << Head(s) >>)
             \o EscapeEach(Tail(s))

\* C5: a string that contains both {{ and }} is rendered as a double-quoted
\* escaped string, never as a symbol and never as a date construct.
C5_PlaceholderAlwaysQuoted ==
    (pc = "converted" /\ data.t = "str" /\ IsPlaceholder(data.s)) =>
        sexpr = Quoted(EscapeEach(data.s))

C5_Witness ==
    /\ pc = "converted" /\ data.t = "str"
    /\ IsPlaceholder(data.s)
    /\ Contains(data.s, IsoSample)
    /\ sexpr = Quoted(data.s)

\* C6: a string that is neither an ISO date nor a placeholder is rendered as
\* the symbol 's exactly when all of it is in [A-Za-z0-9_] and it contains a
\* digit; every other such string is rendered double-quoted and escaped.
C6_SymbolIffWholeWordWithDigit ==
    (pc = "converted" /\ data.t = "str" /\ ~is_iso_date(data.s)
        /\ ~IsPlaceholder(data.s)) =>
        IF /\ data.s # << >>
           /\ \A j \in 1..Len(data.s) : data.s[j] \in WordChars
           /\ \E j \in 1..Len(data.s) : data.s[j] \in AsciiDigits
        THEN sexpr = << "'" >> \o data.s
        ELSE sexpr = Quoted(EscapeEach(data.s))

\* YYYY-MM-DD and no other character
ExactIso(s) ==
    /\ Len(s) = 10
    /\ \A j \in { 1, 2, 3, 4, 6, 7, 9, 10 } : ReDigit(s[j])
    /\ s[5] = "-" /\ s[8] = "-"

\* the YYYY-MM-DD string of a date of a four-digit year
IsoString(y, m, d) == NatStr(y) \o << "-" >> \o Pad02(m) \o << "-" >> \o Pad02(d)

\* C7: a native date of a four-digit year and its YYYY-MM-DD string both give
\* (make-date YYYY MM DD), and a string is rendered as a date construct only
\* if it is YYYY-MM-DD with no other character.
C7_DateOnlyForExactIso ==
    pc = "converted" =>
        /\ (data.t = "date" /\ data.year >= 1000) =>
               /\ sexpr = MakeDate \o NatStr(data.year) \o << " " >>
                              \o Pad02(data.month) \o << " " >> \o Pad02(data.day)
                              \o << ")" >>
               /\ convert(StrV(IsoString(data.year, data.month, data.day)),
                          prefix, None) = sexpr
        /\ (data.t = "str" /\ StartsWith(sexpr, MakeDate)) => ExactIso(data.s)
        /\ (data.t = "str" /\ ExactIso(data.s)) =>
               sexpr = MakeDate \o SubSeq(data.s, 1, 4) \o << " " >>
                           \o SubSeq(data.s, 6, 7) \o << " " >>
                           \o SubSeq(data.s, 9, 10) \o << ")" >>

Events == { "(", ")", "\n" }

\* C8: on each event a pending token that is non-empty after trimming is
\* appended with exactly one leading space, before what the event emits, and
\* after any event the token buffer is empty.
C8_EventFlushesTokenWithSpace ==
    (pc = "format" /\ pos <= Len(expr) /\ expr[pos] \in Events) =>
        LET st == FmtStep([result |-> result, depth |-> depth, token |-> token],
                          expr[pos])
        IN  /\ st.token = << >>
            /\ Strip(token) # << >> =>
                   StartsWith(st.result, result \o << " " >> \o Strip(token))

\* C9: scanning the text the driver builds, the depth counter is never
\* negative and is 0 after the last character.
C9_DriverTextBalanced ==
    /\ depth >= 0
    /\ (pc = "emit" /\ args.pretty) => depth = 0

\* the non-whitespace characters of a text, in order
NonWs(s) == SelectSeq(s, LAMBDA c : c \notin Whitespace)

\* the input up to and including its last "(", ")" or newline
UpToLastEvent(e) ==
    LET at == { i \in 1..Len(e) : e[i] \in Events }
    IN  IF at = {} THEN << >>
        ELSE SubSeq(e, 1, CHOOSE i \in at : \A j \in at : j <= i)

\* C10: for an input whose last character is ")", the non-whitespace
\* characters of the output are those of the input, in the same order; for
\* any input, only the text after its last "(", ")" or newline is not emitted.
C10_OnlyWhitespaceChanges ==
    pc = "emit" =>
        /\ (expr # << >> /\ expr[Len(expr)] = ")") => NonWs(sexpr) = NonWs(expr)
        /\ NonWs(sexpr) = NonWs(UpToLastEvent(expr))

C10_Witness ==
    /\ pc = "emit"
    /\ expr = << "(", "b", " ", "a", ")" >>
    /\ sexpr = << "(", " ", "b", " ", "a", ")" >>

=============================================================================
